---- MODULE Spec2Model ----
(***************************************************************************)
(* Concurrent per-line word counting (file-processor, string-stream-       *)
(* processor, file-processor-cli).                                         *)
(*                                                                         *)
(* count_line_words_concurrent drives one count_line_words stream per      *)
(* source through flat_map_unordered and folds the (identifier, count)     *)
(* items into a HashMap<&str, Vec<usize>>.  The whole pipeline is one      *)
(* future: every poll of the fold either polls the producer, polls one     *)
(* inner line stream, or runs the fold closure on the item just yielded.   *)
(* Which stream is ready at a poll is decided by the readers, so the model *)
(* leaves the order of these steps open.                                   *)
(***************************************************************************)
EXTENDS Naturals, Sequences, FiniteSets

\* ---------------------------------------------------------------- bounds
MaxSources == 2     \* requested sources per aggregation
MaxLines   == 4     \* lines of all the sources of an aggregation together
MaxLineLen == 4     \* characters per line (word-counting specification)
MaxRuns    == 2     \* aggregations of the same static sources
MaxFairLines == 3   \* lines of all the sources together (fair specifications)

\* ---------------------------------------------------------------- inputs
Ids == {"file1.txt", "file2.txt"}

WhitespaceChars == {" ", "\t"}
Chars == {"a"} \cup WhitespaceChars

\* A line as LinesStream yields it: io::Result<String>.
OkLine(text) == [ok |-> TRUE, text |-> text]
ErrLine == [ok |-> FALSE, text |-> <<>>]

SeqsUpTo(S, n) == UNION {[1..k -> S] : k \in 0..n}

\* Lines of the aggregation specification: 1 and 2 words, and a line that is
\* not valid text.
SampleLines == {OkLine(<<"a">>), OkLine(<<"a", " ", "a">>), ErrLine}

\* Lines of the word-counting specification: every text up to MaxLineLen.
AllLines == {OkLine(t) : t \in SeqsUpTo(Chars, MaxLineLen)} \cup {ErrLine}

\* The shape of k requested sources with at most maxLines lines together: per
\* request the identifier, whether open_file succeeds, and the number of lines
\* its reader yields.  The library crates only ever see the opened ones.
RECURSIVE SumLines(_, _)
SumLines(sh, k) == IF k = 0 THEN 0 ELSE sh[k].n + SumLines(sh, k - 1)

Shapes(k, maxLines) ==
    {sh \in [1..k -> [id : Ids, opens : BOOLEAN, n : 0..maxLines]] :
        /\ SumLines(sh, k) <= maxLines
        /\ \A i \in 1..k : ~sh[i].opens => sh[i].n = 0}

\* The requests of shape sh whose lines, one source after the other, are all.
Requests(sh, all) ==
    [i \in DOMAIN sh |->
        [id |-> sh[i].id, opens |-> sh[i].opens,
         lines |-> SubSeq(all, SumLines(sh, i - 1) + 1, SumLines(sh, i))]]

VARIABLES
    files,        \* the requested sources, in producer order (static input)
    next,         \* index of the next request the producer will deliver
    producerDone, \* the producer stream has returned None
    open,         \* inner streams held by flat_map_unordered
    pos,          \* per source: lines read so far
    emitted,      \* per source: items its count_line_words stream yielded
    appended,     \* per source: items of it the fold closure has pushed
    pending,      \* the item yielded to fold and not yet pushed (<<>> or <<item>>)
    data,         \* the HashMap accumulator
    status,       \* "running", "resolved" (data returned) or "panicked"
    run,          \* number of the current aggregation of these sources
    firstResult   \* the mapping returned by the first aggregation

vars == <<files, next, producerDone, open, pos, emitted, appended, pending,
          data, status, run, firstResult>>

\* ------------------------------------------------------- word counting
IsWhitespace(c) == c \in WhitespaceChars

\* str::split(char::is_whitespace): the pieces between matching characters,
\* empty pieces included.
RECURSIVE Split(_, _)
Split(text, cur) ==
    IF text = <<>> THEN <<cur>>
    ELSE IF IsWhitespace(Head(text))
         THEN <<cur>> \o Split(Tail(text), <<>>)
         ELSE Split(Tail(text), Append(cur, Head(text)))

IsNotEmpty(piece) == Len(piece) > 0

\* Faulty variant: the empty pieces are kept, as split(char::is_whitespace) alone.
SplitKeepEmpty(text) == Split(text, <<>>)

\* str::split_whitespace: split on whitespace, drop the empty pieces.
SplitWhitespace(text) == SelectSeq(Split(text, <<>>), IsNotEmpty)

\* line.unwrap().split_whitespace().count()
WordCount(line) == Len(SplitWhitespace(line.text))

\* ------------------------------------------------------------ the map
EmptyMap == [k \in {} |-> <<>>]

\* Faulty variant: the map is rebuilt with the pushed entry only.
EntryPushDropsOthers(acc, id, count) ==
    [k \in {id} |-> Append(IF id \in DOMAIN acc THEN acc[id] ELSE <<>>, count)]

\* Faulty variant: every count goes to one entry, whatever its identifier.
EntryPushOneKey(acc, id, count) ==
    LET k0 == CHOOSE k \in Ids : TRUE
    IN [k \in {k0} |->
           Append(IF k0 \in DOMAIN acc THEN acc[k0] ELSE <<>>, count)]

\* Faulty variant: the entry is replaced instead of extended.
EntryPushOverwrite(acc, id, count) ==
    [k \in DOMAIN acc \cup {id} |-> IF k = id THEN <<count>> ELSE acc[k]]

\* Faulty variant: the count is inserted at the front of the entry.
EntryPushFront(acc, id, count) ==
    [k \in DOMAIN acc \cup {id} |->
        IF k = id
        THEN <<count>> \o (IF id \in DOMAIN acc THEN acc[id] ELSE <<>>)
        ELSE acc[k]]

\* acc.entry(id).or_default().push(count)
EntryPush(acc, id, count) ==
    [k \in DOMAIN acc \cup {id} |->
        IF k = id
        THEN Append(IF id \in DOMAIN acc THEN acc[id] ELSE <<>>, count)
        ELSE acc[k]]

\* ------------------------------------------------------------ actions
Sources == 1..Len(files)

\* let mut data = HashMap::new(); nothing polled yet.
Fresh ==
    /\ next = 1
    /\ producerDone = FALSE
    /\ open = {}
    /\ pos = [s \in Sources |-> 0]
    /\ emitted = [s \in Sources |-> <<>>]
    /\ appended = [s \in Sources |-> 0]
    /\ pending = <<>>
    /\ data = EmptyMap
    /\ status = "running"

InitWith(lineSet, maxSources, maxLines) ==
    /\ \E k \in 0..maxSources : \E sh \in Shapes(k, maxLines) :
        \E all \in [1..SumLines(sh, k) -> lineSet] : files = Requests(sh, all)
    /\ Fresh
    /\ run = 1
    /\ firstResult = EmptyMap

Init == InitWith(SampleLines, MaxSources, MaxLines)

\* The fold polls its stream only when no item is waiting for the closure.
CanPoll == status = "running" /\ pending = <<>>

\* Faulty variant: the entry of a source is created when the source arrives.
ProducerYieldCreatesEntry ==
    /\ CanPoll
    /\ ~producerDone
    /\ next \in Sources
    /\ files[next].opens
    /\ open' = open \cup {next}
    /\ next' = next + 1
    /\ data' = [k \in DOMAIN data \cup {files[next].id} |->
                   IF k \in DOMAIN data THEN data[k] ELSE <<>>]
    /\ UNCHANGED <<files, producerDone, pos, emitted, appended, pending,
                   status, run, firstResult>>

\* Faulty variant: flat_map_unordered(Some(1), ..), one inner stream at a time.
ProducerYieldLimited ==
    /\ CanPoll
    /\ ~producerDone
    /\ next \in Sources
    /\ files[next].opens
    /\ Cardinality(open) < 1
    /\ open' = open \cup {next}
    /\ next' = next + 1
    /\ UNCHANGED <<files, producerDone, pos, emitted, appended, pending, data,
                   status, run, firstResult>>

\* The producer yields the next (identifier, reader) pair; flat_map_unordered
\* pushes count_line_words of it among the inner streams.
ProducerYield ==
    /\ CanPoll
    /\ ~producerDone
    /\ next \in Sources
    /\ files[next].opens
    /\ open' = open \cup {next}
    /\ next' = next + 1
    /\ UNCHANGED <<files, producerDone, pos, emitted, appended, pending, data,
                   status, run, firstResult>>

\* Faulty variant: the open error is unwrapped instead of skipped.
OpenFileUnwraps ==
    /\ CanPoll
    /\ ~producerDone
    /\ next \in Sources
    /\ ~files[next].opens
    /\ status' = "panicked"
    /\ UNCHANGED <<files, next, producerDone, open, pos, emitted, appended,
                   pending, data, run, firstResult>>

\* open_file returns None (after the warning) and filter_map drops the path.
OpenFileFails ==
    /\ CanPoll
    /\ ~producerDone
    /\ next \in Sources
    /\ ~files[next].opens
    /\ next' = next + 1
    /\ UNCHANGED <<files, producerDone, open, pos, emitted, appended, pending,
                   data, status, run, firstResult>>

\* The producer stream returns None.
ProducerEnd ==
    /\ CanPoll
    /\ ~producerDone
    /\ next = Len(files) + 1
    /\ producerDone' = TRUE
    /\ UNCHANGED <<files, next, open, pos, emitted, appended, pending, data,
                   status, run, firstResult>>

\* Faulty variant: the characters of the line are counted, not its words.
LineItemCharCount(s, line) ==
    [src |-> s, id |-> files[s].id, count |-> Len(line.text)]

\* Faulty variant: the item carries another identifier than the one passed in.
LineItemOtherId(s, line) ==
    [src |-> s, id |-> CHOOSE i \in Ids : i # files[s].id,
     count |-> WordCount(line)]

\* The item count_line_words makes of one decoded line.
LineItem(s, line) == [src |-> s, id |-> files[s].id, count |-> WordCount(line)]

\* Faulty variant: flat_map, the inner streams are drained one after the other.
ReadLineInOrder(s) ==
    /\ CanPoll
    /\ s \in open
    /\ \A t \in open : s <= t
    /\ pos[s] < Len(files[s].lines)
    /\ files[s].lines[pos[s] + 1].ok
    /\ LET item == LineItem(s, files[s].lines[pos[s] + 1])
       IN /\ pending' = <<item>>
          /\ emitted' = [emitted EXCEPT ![s] = Append(@, item)]
    /\ pos' = [pos EXCEPT ![s] = @ + 1]
    /\ UNCHANGED <<files, next, producerDone, open, appended, data, status,
                   run, firstResult>>

\* Faulty variant: lines are read ahead of the fold, the waiting item is replaced.
ReadLineAhead(s) ==
    /\ status = "running"
    /\ s \in open
    /\ pos[s] < Len(files[s].lines)
    /\ files[s].lines[pos[s] + 1].ok
    /\ LET item == LineItem(s, files[s].lines[pos[s] + 1])
       IN /\ pending' = <<item>>
          /\ emitted' = [emitted EXCEPT ![s] = Append(@, item)]
    /\ pos' = [pos EXCEPT ![s] = @ + 1]
    /\ UNCHANGED <<files, next, producerDone, open, appended, data, status,
                   run, firstResult>>

\* An inner stream yields its next line and it decodes: the maps turn it into
\* (identifier, count) and flat_map_unordered hands the item to fold.
ReadLine(s) ==
    /\ CanPoll
    /\ s \in open
    /\ pos[s] < Len(files[s].lines)
    /\ files[s].lines[pos[s] + 1].ok
    /\ LET item == LineItem(s, files[s].lines[pos[s] + 1])
       IN /\ pending' = <<item>>
          /\ emitted' = [emitted EXCEPT ![s] = Append(@, item)]
    /\ pos' = [pos EXCEPT ![s] = @ + 1]
    /\ UNCHANGED <<files, next, producerDone, open, appended, data, status,
                   run, firstResult>>

\* Faulty variant: line.unwrap_or_default(), the undecodable line counts 0.
ReadLineDefaults(s) ==
    /\ CanPoll
    /\ s \in open
    /\ pos[s] < Len(files[s].lines)
    /\ ~files[s].lines[pos[s] + 1].ok
    /\ LET item == [src |-> s, id |-> files[s].id, count |-> 0]
       IN /\ pending' = <<item>>
          /\ emitted' = [emitted EXCEPT ![s] = Append(@, item)]
    /\ pos' = [pos EXCEPT ![s] = @ + 1]
    /\ UNCHANGED <<files, next, producerDone, open, appended, data, status,
                   run, firstResult>>

\* Faulty variant: the undecodable line is skipped and the stream goes on.
ReadLineSkips(s) ==
    /\ CanPoll
    /\ s \in open
    /\ pos[s] < Len(files[s].lines)
    /\ ~files[s].lines[pos[s] + 1].ok
    /\ pos' = [pos EXCEPT ![s] = @ + 1]
    /\ UNCHANGED <<files, next, producerDone, open, emitted, appended, pending,
                   data, status, run, firstResult>>

\* An inner stream yields Err for its next line: line.unwrap() panics and the
\* panic unwinds through the fold future.
ReadLinePanics(s) ==
    /\ CanPoll
    /\ s \in open
    /\ pos[s] < Len(files[s].lines)
    /\ ~files[s].lines[pos[s] + 1].ok
    /\ pos' = [pos EXCEPT ![s] = @ + 1]
    /\ status' = "panicked"
    /\ UNCHANGED <<files, next, producerDone, open, emitted, appended, pending,
                   data, run, firstResult>>

\* Faulty variant: an inner stream that never yielded a line is never dropped.
EndOfSourceAfterLines(s) ==
    /\ CanPoll
    /\ s \in open
    /\ pos[s] = Len(files[s].lines)
    /\ pos[s] > 0
    /\ open' = open \ {s}
    /\ UNCHANGED <<files, next, producerDone, pos, emitted, appended, pending,
                   data, status, run, firstResult>>

\* An inner stream returns None: flat_map_unordered drops it.
EndOfSource(s) ==
    /\ CanPoll
    /\ s \in open
    /\ pos[s] = Len(files[s].lines)
    /\ open' = open \ {s}
    /\ UNCHANGED <<files, next, producerDone, pos, emitted, appended, pending,
                   data, status, run, firstResult>>

\* Faulty variant: the item stays with the fold after its closure has run.
FoldStepKeepsItem ==
    /\ status = "running"
    /\ pending # <<>>
    /\ LET item == pending[1]
       IN /\ data' = EntryPush(data, item.id, item.count)
          /\ appended' = [appended EXCEPT ![item.src] = @ + 1]
    /\ \/ pending' = <<>>
       \/ pending' = pending
    /\ UNCHANGED <<files, next, producerDone, open, pos, emitted, status, run,
                   firstResult>>

\* The fold closure on the yielded item.
FoldStep ==
    /\ status = "running"
    /\ pending # <<>>
    /\ LET item == pending[1]
       IN /\ data' = EntryPush(data, item.id, item.count)
          /\ appended' = [appended EXCEPT ![item.src] = @ + 1]
    /\ pending' = <<>>
    /\ UNCHANGED <<files, next, producerDone, open, pos, emitted, status, run,
                   firstResult>>

\* Faulty variant: fold completes when no inner stream is left, whether or not
\* the producer has ended.
ResolveWhenIdle ==
    /\ CanPoll
    /\ open = {}
    /\ status' = "resolved"
    /\ UNCHANGED <<files, next, producerDone, open, pos, emitted, appended,
                   pending, data, run, firstResult>>

\* Faulty variant: fold completes only once a count was pushed.
ResolveAfterItems ==
    /\ CanPoll
    /\ producerDone
    /\ open = {}
    /\ data # EmptyMap
    /\ status' = "resolved"
    /\ UNCHANGED <<files, next, producerDone, open, pos, emitted, appended,
                   pending, data, run, firstResult>>

\* Faulty variant: fold completes as soon as the producer is exhausted.
ResolveEarly ==
    /\ CanPoll
    /\ producerDone
    /\ status' = "resolved"
    /\ UNCHANGED <<files, next, producerDone, open, pos, emitted, appended,
                   pending, data, run, firstResult>>

\* The flattened stream returns None, fold completes and data is returned.
Resolve ==
    /\ CanPoll
    /\ producerDone
    /\ open = {}
    /\ status' = "resolved"
    /\ UNCHANGED <<files, next, producerDone, open, pos, emitted, appended,
                   pending, data, run, firstResult>>

\* The caller aggregates the same static sources once more.
Rerun ==
    /\ status = "resolved"
    /\ run < MaxRuns
    /\ run' = run + 1
    /\ firstResult' = IF run = 1 THEN data ELSE firstResult
    /\ next' = 1
    /\ producerDone' = FALSE
    /\ open' = {}
    /\ pos' = [s \in Sources |-> 0]
    /\ emitted' = [s \in Sources |-> <<>>]
    /\ appended' = [s \in Sources |-> 0]
    /\ pending' = <<>>
    /\ data' = EmptyMap
    /\ status' = "running"
    /\ UNCHANGED files

Next ==
    \/ ProducerYield
    \/ OpenFileFails
    \/ ProducerEnd
    \/ \E s \in Sources : ReadLine(s)
    \/ \E s \in Sources : ReadLinePanics(s)
    \/ \E s \in Sources : EndOfSource(s)
    \/ FoldStep
    \/ Resolve

Spec == Init /\ [][Next]_vars

\* Repeated aggregations of the same static sources, the opened ones having
\* pairwise distinct identifiers.
InitTwice ==
    /\ Init
    /\ \A s, t \in Sources :
        (files[s].opens /\ files[t].opens /\ s # t) => files[s].id # files[t].id

NextTwice == Next \/ Rerun

SpecTwice == InitTwice /\ [][NextTwice]_vars

\* One source of one line, the line ranging over every text up to MaxLineLen.
InitWords == InitWith(AllLines, 1, 1)

SpecWords == InitWords /\ [][Next]_vars

\* Fair scheduling: the future is polled again whenever one of its streams
\* is ready or an item waits for the closure, the producer delivers its
\* sources and ends, every reader yields its lines and reaches end of input.
Fairness == WF_vars(Next)

InitFair == InitWith(SampleLines, MaxSources, MaxFairLines)

SpecFair == InitFair /\ [][Next]_vars /\ Fairness

\* The readers of one identifier may stall: they have no line available for as
\* long as they like, for ever too.  Everything else is scheduled fairly.
StalledId == "file1.txt"

Stalled(s) == s \in Sources /\ files[s].id = StalledId

ReadyStep(s) ==
    /\ ~Stalled(s)
    /\ ReadLine(s) \/ ReadLinePanics(s) \/ EndOfSource(s)

NextReady ==
    \/ ProducerYield
    \/ OpenFileFails
    \/ ProducerEnd
    \/ \E s \in Sources : ReadyStep(s)
    \/ FoldStep
    \/ Resolve

FairnessButStalled == WF_vars(NextReady)

SpecStalled == InitFair /\ [][Next]_vars /\ FairnessButStalled

\* ------------------------------------------------------------ properties
\* The sources the aggregator is given: the requests whose open succeeded.
Opened == {s \in Sources : files[s].opens}

DistinctIds ==
    \A s, t \in Opened : s # t => files[s].id # files[t].id

\* The per-line word counts of source s, in line order.
LineCounts(s) ==
    [i \in 1..Len(files[s].lines) |-> WordCount(files[s].lines[i])]

NumLines(s) == Len(files[s].lines)

\* C1: with pairwise distinct identifiers, the returned mapping holds for each
\* source exactly its per-line counts in line order (and no key for a source
\* without lines), whatever the interleaving was.
C1_EntryIsOwnCounts ==
    (status = "resolved" /\ DistinctIds) =>
        \A s \in Opened :
            IF NumLines(s) = 0
            THEN files[s].id \notin DOMAIN data
            ELSE /\ files[s].id \in DOMAIN data
                 /\ data[files[s].id] = LineCounts(s)

\* Scenario A's shape: two sources of two lines, the first with two different
\* counts, the second with twice the same count.
C1_Witness ==
    /\ status = "resolved"
    /\ DistinctIds
    /\ \E s, t \in Opened :
        /\ files[s].id # files[t].id
        /\ LineCounts(s) = <<1, 2>>
        /\ LineCounts(t) = <<1, 1>>
        /\ data[files[s].id] = <<1, 2>>
        /\ data[files[t].id] = <<1, 1>>

\* C2: a single source of N >= 1 lines emits exactly N items, the i-th being
\* (its identifier, count of line i), and the mapping's entry for the
\* identifier is those N counts in line order.
C2_SingleSourceItems ==
    (status = "resolved" /\ Len(files) = 1 /\ Opened = {1} /\ NumLines(1) >= 1) =>
        /\ Len(emitted[1]) = NumLines(1)
        /\ \A i \in 1..NumLines(1) :
            /\ emitted[1][i].id = files[1].id
            /\ emitted[1][i].count = WordCount(files[1].lines[i])
        /\ DOMAIN data = {files[1].id}
        /\ Len(data[files[1].id]) = NumLines(1)
        /\ \A i \in 1..NumLines(1) :
            data[files[1].id][i] = WordCount(files[1].lines[i])

C2_Witness ==
    /\ status = "resolved"
    /\ Len(files) = 1
    /\ Opened = {1}
    /\ NumLines(1) = MaxLines
    /\ LineCounts(1)[1] # LineCounts(1)[MaxLines]
    /\ Len(emitted[1]) = MaxLines
    /\ Len(data[files[1].id]) = MaxLines

\* C3: the mapping is returned only when the producer is exhausted and every
\* source given to the aggregator is drained and folded: no line unread, no
\* item read but not appended.
C3_ResolvesOnlyWhenDrained ==
    status = "resolved" =>
        /\ producerDone
        /\ next = Len(files) + 1
        /\ pending = <<>>
        /\ \A s \in Opened :
            /\ pos[s] = NumLines(s)
            /\ appended[s] = NumLines(s)

C3_Witness ==
    /\ status = "resolved"
    /\ Cardinality(Opened) >= 2
    /\ \A s \in Opened : appended[s] >= 2

\* C4: aggregating the same static sources again returns the same mapping as
\* the first time when the identifiers are pairwise distinct, whatever the
\* interleaving of either aggregation was.
C4_SameResultTwice ==
    (run > 1 /\ status = "resolved" /\ DistinctIds) => data = firstResult

C4_Witness ==
    /\ run = MaxRuns
    /\ status = "resolved"
    /\ DistinctIds
    /\ data = firstResult
    /\ \E s, t \in Opened :
        /\ s # t
        /\ LineCounts(s) = <<1, 2>>
        /\ LineCounts(t) = <<2, 1>>

\* Some source has yielded a line that does not decode.
DecodeFailed ==
    \E s \in Sources : \E i \in 1..pos[s] : ~files[s].lines[i].ok

\* C5: once a source has yielded an undecodable line the aggregation has
\* failed as a whole: it is never running on, and never returns a mapping.
C5_DecodeFailureIsFatal == DecodeFailed => status = "panicked"

\* The failure comes after counts of two sources were already appended.
C5_Witness ==
    /\ DecodeFailed
    /\ status = "panicked"
    /\ Cardinality(DOMAIN data) = 2
    /\ \E s \in Opened : pos[s] < NumLines(s)

\* The opened sources given with identifier id.
Sharing(id) == {s \in Opened : files[s].id = id}

RECURSIVE TotalLines(_)
TotalLines(S) ==
    IF S = {} THEN 0
    ELSE LET s == CHOOSE x \in S : TRUE
         IN NumLines(s) + TotalLines(S \ {s})

RECURSIVE IsSubseq(_, _)
IsSubseq(a, b) ==
    IF a = <<>> THEN TRUE
    ELSE IF b = <<>> THEN FALSE
    ELSE IF Head(a) = Head(b) THEN IsSubseq(Tail(a), Tail(b))
    ELSE IsSubseq(a, Tail(b))

\* C6: sources sharing an identifier are merged into one entry whose length is
\* the sum of their line counts and in which each source's count sequence is
\* an order-preserving subsequence.
C6_SharedIdMerged ==
    status = "resolved" =>
        \A id \in Ids :
            IF TotalLines(Sharing(id)) = 0
            THEN id \notin DOMAIN data
            ELSE /\ id \in DOMAIN data
                 /\ Len(data[id]) = TotalLines(Sharing(id))
                 /\ \A s \in Sharing(id) : IsSubseq(LineCounts(s), data[id])

\* Two sources of one identifier, their lines interleaved in the entry.
C6_Witness ==
    /\ status = "resolved"
    /\ \E s, t \in Opened :
        /\ s # t
        /\ files[s].id = files[t].id
        /\ LineCounts(s) = <<1, 1>>
        /\ LineCounts(t) = <<2, 2>>
        /\ data[files[s].id] = <<1, 2, 1, 2>>

\* C7: a request whose open fails never reaches the aggregator: it raises no
\* error, an identifier without an opened source is no key of the result, and
\* every opened source whose identifier no other opened source has keeps
\* exactly its own counts.
C7_OpenFailureFilteredOut ==
    /\ \A s \in Sources \ Opened :
        s \notin open /\ pos[s] = 0 /\ appended[s] = 0
    /\ status = "panicked" => DecodeFailed
    /\ status = "resolved" =>
        /\ \A id \in Ids : Sharing(id) = {} => id \notin DOMAIN data
        /\ \A s \in Opened :
            (Sharing(files[s].id) = {s} /\ NumLines(s) >= 1) =>
                /\ files[s].id \in DOMAIN data
                /\ data[files[s].id] = LineCounts(s)

\* One request failed to open, the other was aggregated.
C7_Witness ==
    /\ status = "resolved"
    /\ \E s \in Sources \ Opened : \E t \in Opened :
        /\ files[s].id # files[t].id
        /\ NumLines(t) >= 2
        /\ DOMAIN data = {files[t].id}

\* C8: with no source requested the aggregation cannot fail, always has its
\* next step enabled until it has resolved, and its mapping has no key.
C8_NoSourcesEmptyMapping ==
    Len(files) = 0 =>
        /\ status \in {"running", "resolved"}
        /\ DOMAIN data = {}
        /\ status = "running" => ENABLED (ProducerEnd \/ Resolve)

C8_Witness ==
    /\ Len(files) = 0
    /\ status = "resolved"
    /\ data = EmptyMap

\* The number of maximal runs of non-whitespace characters of a text: the
\* positions where such a run starts.
MaximalRuns(text) ==
    Cardinality({i \in 1..Len(text) :
        /\ text[i] \notin WhitespaceChars
        /\ (i = 1 \/ text[i - 1] \in WhitespaceChars)})

AllWhitespace(text) == \A i \in 1..Len(text) : text[i] \in WhitespaceChars

\* C9: every decoded line read has its item, whose count is the number of
\* maximal non-whitespace runs of the line; 0 for an empty or all-whitespace
\* line.
C9_CountIsMaximalRuns ==
    \A s \in Sources :
        /\ Len(emitted[s]) = Cardinality({i \in 1..pos[s] : files[s].lines[i].ok})
        /\ \A i \in 1..Len(emitted[s]) :
            /\ emitted[s][i].count = MaximalRuns(files[s].lines[i].text)
            /\ AllWhitespace(files[s].lines[i].text) => emitted[s][i].count = 0

\* Two words separated by two whitespace characters were counted and folded.
C9_Witness ==
    /\ Len(files) = 1
    /\ files[1].lines = <<OkLine(<<"a", " ", "\t", "a">>)>>
    /\ status = "resolved"
    /\ data[files[1].id] = <<2>>

\* C10: a source's next line is read only after the count of its previous
\* line was pushed by the fold: each source has at most one line read and not
\* yet appended.
C10_AtMostOneLineInFlight ==
    \A s \in Sources :
        /\ appended[s] <= pos[s]
        /\ pos[s] <= appended[s] + 1

\* A line is read and not yet appended while its source has more lines.
C10_Witness ==
    \E s \in Opened :
        /\ pending # <<>>
        /\ pending[1].src = s
        /\ pos[s] = appended[s] + 1
        /\ pos[s] < NumLines(s)

\* The number of counts in the accumulator, of items emitted by the sources,
\* and of items the fold closure has pushed.
RECURSIVE DataSize(_, _)
DataSize(acc, keys) ==
    IF keys = {} THEN 0
    ELSE LET k == CHOOSE x \in keys : TRUE
         IN Len(acc[k]) + DataSize(acc, keys \ {k})

RECURSIVE EmittedCount(_)
EmittedCount(S) ==
    IF S = {} THEN 0
    ELSE LET s == CHOOSE x \in S : TRUE
         IN Len(emitted[s]) + EmittedCount(S \ {s})

RECURSIVE AppendedCount(_)
AppendedCount(S) ==
    IF S = {} THEN 0
    ELSE LET s == CHOOSE x \in S : TRUE
         IN appended[s] + AppendedCount(S \ {s})

\* C12: at most one item is in a fold step at any time, and every emitted
\* count is in the accumulator exactly once or is that one item: none is lost
\* and none is applied twice.
C12_OneFoldStepAtATime ==
    /\ Len(pending) <= 1
    /\ DataSize(data, DOMAIN data) = AppendedCount(Sources)
    /\ EmittedCount(Sources) = DataSize(data, DOMAIN data) + Len(pending)

\* Two sources have both had counts pushed and a further item is in its step.
C12_Witness ==
    /\ Len(pending) = 1
    /\ \E s, t \in Opened : s # t /\ appended[s] >= 1 /\ appended[t] >= 1
    /\ DataSize(data, DOMAIN data) >= 2

\* C13: whenever the fold can poll and the producer has a further opened
\* source to deliver, delivering it is possible whatever the number of inner
\* streams already open; so all sources can be open at once.
C13_NoCapOnOpenSources ==
    (CanPoll /\ ~producerDone /\ next \in Sources /\ files[next].opens) =>
        ENABLED ProducerYield

\* Every requested source is open at once, each with a line still unread.
C13_Witness ==
    /\ Len(files) = MaxSources
    /\ open = Sources
    /\ \A s \in Sources : pos[s] < NumLines(s)

\* Every source the producer has delivered so far is drained and folded.
DeliveredDrained ==
    /\ pending = <<>>
    /\ open = {}
    /\ \A s \in Opened : s < next => appended[s] = NumLines(s)

\* C14: as long as the producer has not ended the aggregation has not
\* resolved and cannot resolve, even when everything delivered so far is
\* drained; a producer that never ends keeps it from ever resolving.
C14_NoResolveBeforeProducerEnds ==
    ~producerDone => (status # "resolved" /\ ~ENABLED Resolve)

\* All sources were delivered and drained, the producer has yet to end.
C14_Witness ==
    /\ ~producerDone
    /\ status = "running"
    /\ next = Len(files) + 1
    /\ Cardinality(Opened) = MaxSources
    /\ DeliveredDrained
    /\ \A s \in Opened : NumLines(s) >= 1

\* C15: the step in which a source yields an undecodable line emits no count
\* and changes no entry, and from then on no line of any source is read or
\* counted and no appended count changes: the bad line is not skipped.
C15_DecodeFailureStopsSource ==
    [][/\ \A s \in Sources :
            (pos'[s] > pos[s] /\ ~files[s].lines[pos'[s]].ok) =>
                (emitted' = emitted /\ appended' = appended /\ data' = data)
       /\ DecodeFailed =>
            (pos' = pos /\ emitted' = emitted /\ appended' = appended
             /\ pending' = pending /\ data' = data)]_vars

\* A source failed on its second line with a line still to come, after a
\* count of it and a count of another source were appended.
C15_Witness ==
    \E s, t \in Opened :
        /\ s # t
        /\ files[s].id # files[t].id
        /\ pos[s] = 2
        /\ ~files[s].lines[2].ok
        /\ NumLines(s) > 2
        /\ Len(emitted[s]) = 1
        /\ data[files[s].id] = <<WordCount(files[s].lines[1])>>
        /\ appended[t] = 1
        /\ data[files[t].id] = <<WordCount(files[t].lines[1])>>

\* C16: every key of the accumulator has a non-empty sequence and is the
\* identifier of a delivered source a count of which was pushed; so an opened
\* source without lines gives no key to the returned mapping by itself.
C16_KeysOnlyOnFirstCount ==
    /\ \A k \in DOMAIN data :
        /\ Len(data[k]) >= 1
        /\ \E s \in Opened : s < next /\ files[s].id = k /\ appended[s] >= 1
    /\ status = "resolved" =>
        \A s \in Opened :
            (\A t \in Sharing(files[s].id) : NumLines(t) = 0) =>
                files[s].id \notin DOMAIN data

\* An opened source without lines and one with lines were aggregated: only
\* the second has a key.
C16_Witness ==
    /\ status = "resolved"
    /\ \E s, t \in Opened :
        /\ NumLines(s) = 0
        /\ NumLines(t) >= 1
        /\ files[s].id # files[t].id
        /\ DOMAIN data = {files[t].id}

\* C17: a step either leaves the accumulator alone or is the fold step of the
\* waiting item (id, count): it extends the entry of id by that count at its
\* end, keeps that entry's earlier counts, and keeps every other key with its
\* sequence; no key and no count is removed or rewritten.
C17_AppendOnlySingleEntry ==
    [][\/ data' = data
       \/ /\ pending # <<>>
          /\ LET id == pending[1].id
                 count == pending[1].count
                 before == IF id \in DOMAIN data THEN data[id] ELSE <<>>
             IN /\ DOMAIN data' = DOMAIN data \cup {id}
                /\ Len(data'[id]) = Len(before) + 1
                /\ data'[id][Len(before) + 1] = count
                /\ SubSeq(data'[id], 1, Len(before)) = before
                /\ \A k \in DOMAIN data \ {id} : data'[k] = data[k]]_vars

\* Both entries exist, one of them extended at least once, the aggregation
\* still running.
C17_Witness ==
    /\ status = "running"
    /\ pending = <<>>
    /\ Cardinality(DOMAIN data) = 2
    /\ \E k \in DOMAIN data : Len(data[k]) >= 2
    /\ \E s \in open : pos[s] < NumLines(s)

\* C18: with pairwise distinct identifiers, at every moment the entry of each
\* source is the prefix of its per-line counts as long as the number of its
\* lines folded so far (no key while none is folded).
C18_EntryIsPrefix ==
    DistinctIds =>
        \A s \in Opened :
            IF appended[s] = 0
            THEN files[s].id \notin DOMAIN data
            ELSE /\ appended[s] <= NumLines(s)
                 /\ files[s].id \in DOMAIN data
                 /\ Len(data[files[s].id]) = appended[s]
                 /\ \A i \in 1..appended[s] :
                     data[files[s].id][i] = WordCount(files[s].lines[i])

\* Two sources, each folded partway, their lines still coming.
C18_Witness ==
    /\ status = "running"
    /\ DistinctIds
    /\ \E s, t \in open :
        /\ s # t
        /\ appended[s] = 1 /\ NumLines(s) = 2
        /\ appended[t] = 1 /\ NumLines(t) = 2
        /\ LineCounts(s) = <<1, 2>>
        /\ LineCounts(t) = <<2, 1>>

\* Every line of every opened source decodes.
AllDecodable ==
    \A s \in Opened : \A i \in 1..NumLines(s) : files[s].lines[i].ok

\* C11: while the sources of one identifier are stalled, for ever too, every
\* other opened source still has all its lines appended eventually, wherever
\* the stalled ones stand in the producer's order.
C11_StalledSourceBlocksNoOther ==
    AllDecodable ~>
        (\A s \in Opened : ~Stalled(s) => appended[s] = NumLines(s))

\* A stalled source delivered first is open with none of its lines read, and
\* a source delivered after it has all its lines appended.
C11_Witness ==
    \E t, s \in open :
        /\ t < s
        /\ Stalled(t) /\ pos[t] = 0 /\ NumLines(t) >= 1
        /\ ~Stalled(s) /\ NumLines(s) >= 2 /\ appended[s] = NumLines(s)

\* C19: when every line decodes, fair scheduling leads the aggregation to
\* resolve, with every opened source completely in the mapping.
C19_EventuallyResolves ==
    AllDecodable ~>
        (status = "resolved" /\ \A s \in Opened : appended[s] = NumLines(s))

C19_Witness ==
    /\ AllDecodable
    /\ status = "resolved"
    /\ Cardinality(Opened) = MaxSources
    /\ DataSize(data, DOMAIN data) = MaxFairLines

====
